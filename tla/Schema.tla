------------------------------- MODULE Schema -------------------------------
(***************************************************************************)
(* JSON Schemas of Go types (schema/schema.go), the validation of JSON     *)
(* against them (schema/validate.go), and decodeOutput (run.go), which     *)
(* validates and then decodes a model's answer.                            *)
(*                                                                         *)
(* A type is a record whose kind is in k; named types may refer to         *)
(* themselves.  A JSON value is a record whose kind is in t; numbers are   *)
(* counted in halves, and remember whether they were written with a        *)
(* fraction ("1.0").  Error messages, paths, descriptions and formats are  *)
(* left out.                                                               *)
(***************************************************************************)
EXTENDS Integers, Sequences, FiniteSets, SequencesExt

CONSTANTS
    Named,      \* the definitions of named types
    Base64,     \* the strings that decode as bytes
    Times       \* the strings that decode as a time.Time

\* maxDepth.
MaxDepth == 32

-----------------------------------------------------------------------------
(* For                                                                     *)

\* A schema node with nothing but a type; "" is unconstrained.
Node(type) ==
    [type |-> type, props |-> <<>>, required |-> {}, closed |-> FALSE, items |-> <<>>,
     enum |-> {}, bounds |-> <<>>]

\* There is no schema.
Unsupported == Node("unsupported")

NoTag == [req |-> "auto", enum |-> {}, bounds |-> <<>>]

\* deref, and the definition of a name.
RECURSIVE Deref(_)
Deref(T) ==
    CASE T.k = "ptr" -> Deref(T.of)
      [] T.k = "named" -> Deref(Named[T.name])
      [] OTHER -> T

\* applyTag: enums are lists of strings, whatever the type.
ApplyTag(node, tag) == [node EXCEPT !.enum = tag.enum, !.bounds = tag.bounds]

\* A mutant of IsRequired: a pointer is required unless it says omitempty.
IsRequiredIgnoringPointers(f) ==
    CASE f.tag.req = "yes" -> TRUE
      [] f.tag.req = "no" -> FALSE
      [] OTHER -> ~f.omitempty

\* isRequired: the tag decides, else whether the field is a pointer or omitempty.
IsRequired(f) ==
    CASE f.tag.req = "yes" -> TRUE
      [] f.tag.req = "no" -> FALSE
      [] OTHER -> f.type.k # "ptr" /\ ~f.omitempty

RECURSIVE Build(_, _, _)
RECURSIVE BuildStruct(_, _, _)

\* build.
Build(Type, tag, depth) ==
    LET T == Deref(Type)
        Inner == Build(T.of, NoTag, depth + 1)
    IN  CASE depth > MaxDepth -> Unsupported
          [] T.k = "struct" /\ depth <= MaxDepth -> BuildStruct(T, tag, depth)
          [] T.k = "slice" /\ depth <= MaxDepth ->
                IF Inner = Unsupported THEN Unsupported
                ELSE ApplyTag([Node("array") EXCEPT !.items = <<Inner>>], tag)
          [] T.k = "map" /\ depth <= MaxDepth ->
                IF T.key # "string" \/ Inner = Unsupported THEN Unsupported
                ELSE ApplyTag(Node("object"), tag)
          [] T.k \in {"string", "bytes", "time"} /\ depth <= MaxDepth -> ApplyTag(Node("string"), tag)
          [] T.k = "bool" /\ depth <= MaxDepth -> ApplyTag(Node("boolean"), tag)
          [] T.k = "int" /\ depth <= MaxDepth -> ApplyTag(Node("integer"), tag)
          [] T.k = "float" /\ depth <= MaxDepth -> ApplyTag(Node("number"), tag)
          [] T.k = "any" /\ depth <= MaxDepth -> ApplyTag(Node(""), tag)
          [] OTHER -> Unsupported

\* buildStruct: exported fields in order, embedded structs flattened into the same object.
BuildStruct(T, tag, depth) ==
    LET Shown == SelectSeq(T.fields, LAMBDA f : f.exported /\ ~f.hidden)
        Add(node, f) ==
            LET sub == IF f.embedded THEN BuildStruct(Deref(f.type), NoTag, depth + 1)
                       ELSE Build(f.type, f.tag, depth + 1)
            IN  CASE node = Unsupported \/ sub = Unsupported -> Unsupported
                  [] f.embedded /\ node # Unsupported /\ sub # Unsupported ->
                        [node EXCEPT !.props = sub.props @@ @, !.required = @ \cup sub.required]
                  [] OTHER ->
                        [node EXCEPT !.props = (f.name :> sub) @@ @,
                                     !.required = IF IsRequired(f) THEN @ \cup {f.name} ELSE @]
        struct == FoldLeft(Add, [Node("object") EXCEPT !.closed = TRUE], Shown)
    IN  IF struct = Unsupported THEN Unsupported ELSE ApplyTag(struct, tag)

For(T) == Build(T, NoTag, 0)

-----------------------------------------------------------------------------
(* Validate                                                                *)

\* checkBounds, both inclusive.
InBounds(node, v) == node.bounds = <<>> \/ (node.bounds[1] <= v.half /\ v.half <= node.bounds[2])

IsWhole(v) == v.half % 2 = 0

\* validateValue: the values of a map are not looked at.
RECURSIVE Validate(_, _)
Validate(node, v) ==
    /\ node.enum # {} => v.t = "string" /\ v.s \in node.enum
    /\ CASE node.type = "object" ->
              /\ v.t = "object"
              /\ node.required \subseteq DOMAIN v.o
              /\ \A name \in DOMAIN v.o :
                    IF name \in DOMAIN node.props THEN Validate(node.props[name], v.o[name])
                    ELSE ~node.closed
         [] node.type = "array" -> v.t = "array" /\ \A i \in DOMAIN v.a : Validate(node.items[1], v.a[i])
         [] node.type = "string" -> v.t = "string"
         [] node.type = "integer" -> v.t = "number" /\ IsWhole(v) /\ InBounds(node, v)
         [] node.type = "number" -> v.t = "number" /\ InBounds(node, v)
         [] node.type = "boolean" -> v.t = "bool"
         [] OTHER -> TRUE

-----------------------------------------------------------------------------
(* encoding/json (external)                                                *)

\* The fields of a struct that are encoded, those of an embedded struct included, whether
\* or not that one is exported.
RECURSIVE Fields(_)
Fields(T) ==
    LET Seen == {f \in ToSet(T.fields) : ~f.hidden /\ (f.exported \/ f.embedded)}
    IN  UNION {IF f.embedded THEN Fields(Deref(f.type)) ELSE {f} : f \in Seen}

\* json.Unmarshal: null leaves anything as it is, unknown properties are ignored.
RECURSIVE Decodes(_, _)
Decodes(Type, v) ==
    LET T == Deref(Type)
    IN  \/ v.t = "null"
        \/ CASE T.k = "string" -> v.t = "string"
             [] T.k = "bytes" -> v.t = "string" /\ v.s \in Base64
             [] T.k = "time" -> v.t = "string" /\ v.s \in Times
             [] T.k = "bool" -> v.t = "bool"
             [] T.k = "int" -> v.t = "number" /\ ~v.fraction /\ T.lo <= v.half /\ v.half <= T.hi
             [] T.k = "float" -> v.t = "number"
             [] T.k = "slice" -> v.t = "array" /\ \A i \in DOMAIN v.a : Decodes(T.of, v.a[i])
             [] T.k = "map" -> v.t = "object" /\ \A n \in DOMAIN v.o : Decodes(T.of, v.o[n])
             [] T.k = "struct" ->
                   /\ v.t = "object"
                   /\ \A f \in Fields(T) : f.name \in DOMAIN v.o => Decodes(f.type, v.o[f.name])
             [] OTHER -> TRUE

-----------------------------------------------------------------------------

\* decodeOutput.
DecodeOutput(T, v) == Validate(For(T), v) /\ Decodes(T, v)

\* What a type and its tags mean, without a schema: a value that is there, of the type's
\* kind and within its range, with no property but the type's and no missing one that is
\* required.  Of the values of a map all that, if "deep", or only that they can be decoded.
RECURSIVE Means(_, _, _, _)
Means(Type, tag, v, deep) ==
    LET T == Deref(Type)
    IN  /\ v.t # "null" \/ T.k = "any"
        /\ Decodes(T, v)
        /\ tag.enum # {} => v.t = "string" /\ v.s \in tag.enum
        /\ (T.k \in {"int", "float"} /\ tag.bounds # <<>>) =>
              tag.bounds[1] <= v.half /\ v.half <= tag.bounds[2]
        /\ T.k = "slice" => \A i \in DOMAIN v.a : Means(T.of, NoTag, v.a[i], deep)
        /\ (T.k = "map" /\ deep) => \A n \in DOMAIN v.o : Means(T.of, NoTag, v.o[n], deep)
        /\ T.k = "struct" =>
              /\ DOMAIN v.o \subseteq {f.name : f \in Fields(T)}
              /\ \A f \in Fields(T) :
                    IF f.name \in DOMAIN v.o THEN Means(f.type, f.tag, v.o[f.name], deep)
                    ELSE f.tag.req = "no" \/ (f.tag.req = "auto" /\ (f.type.k = "ptr" \/ f.omitempty))

\* A struct in T has fields that only encoding/json sees: those of an embedded struct of an
\* unexported type.  (T has a schema, and so is not recursive.)
RECURSIVE Promotes(_)
Promotes(Type) ==
    LET T == Deref(Type)
    IN  CASE T.k \in {"slice", "map"} -> Promotes(T.of)
          [] T.k = "struct" ->
                \E f \in ToSet(T.fields) :
                    ~f.hidden /\ IF f.exported THEN Promotes(f.type) ELSE f.embedded
          [] OTHER -> FALSE

=============================================================================
