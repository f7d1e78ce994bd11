-------------------------------- MODULE Serde -------------------------------
(***************************************************************************)
(* serde_json::from_value on the derived `Deserialize` impls of this       *)
(* crate, external code that bundle.rs and trust.rs parse with.            *)
(*                                                                         *)
(* A JSON value is a record whose one field tells its kind.  A type is     *)
(* the deserializer that serde_derive generates for it: the operator that  *)
(* takes a value to the Option of what it is read as, the set of it, or {} *)
(* for an error.  A Rust struct is the record of its fields by the keys    *)
(* that `rename_all` gives them, a Vec a sequence, an Option a set, and a  *)
(* map a function.                                                         *)
(***************************************************************************)
EXTENDS Symbolic, SequencesExt

Str(text) == [str |-> text]
Num(n) == [num |-> n]
Arr(values) == [arr |-> values]
Obj(members) == [obj |-> members]
Null == [null |-> TRUE]

Is(value, kind) == kind \in DOMAIN value

String(value) == IF Is(value, "str") THEN {value.str} ELSE {}
U64(value) == IF Is(value, "num") THEN {value.num} \intersect Nat ELSE {}
AnyValue(value) == {value}

Vec(value, Of(_)) ==
    IF Is(value, "arr") /\ \A i \in DOMAIN value.arr : Of(value.arr[i]) # {}
    THEN {[i \in DOMAIN value.arr |-> The(Of(value.arr[i]))]} ELSE {}

Map(value, Of(_)) ==
    IF Is(value, "obj") /\ \A k \in DOMAIN value.obj : Of(value.obj[k]) # {}
    THEN {[k \in DOMAIN value.obj |-> The(Of(value.obj[k]))]} ELSE {}

-----------------------------------------------------------------------------
\* What a struct's i-th field is read from, as an Option: an object gives it
\* by its key, and members of another name are ignored; an array gives the
\* fields in order.
Given(value, i, key) ==
    IF Is(value, "obj") THEN {value.obj[k] : k \in {key} \intersect DOMAIN value.obj}
    ELSE {value.arr[j] : j \in {i} \intersect DOMAIN value.arr}

\* The structs with the given fields, each one an Option, if the value can be a
\* struct of so many fields at all.
IsStruct(value, count) == Is(value, "obj") \/ (Is(value, "arr") /\ Len(value.arr) <= count)

Struct(value, count, structs) == IF IsStruct(value, count) THEN structs ELSE {}

Field(value, i, key, Of(_)) == UNION {Of(v) : v \in Given(value, i, key)}

\* A field with #[serde(default)].
Defaulted(value, i, key, Of(_), default) ==
    IF Given(value, i, key) = {} THEN {default} ELSE Field(value, i, key, Of)

\* Such a field of a type Option<T>, for which null is None too, and of a type Vec<T>.
OptionField(value, i, key, Of(_)) ==
    IF Given(value, i, key) \subseteq {Null} THEN {{}} ELSE {{v} : v \in Field(value, i, key, Of)}

VecField(value, i, key, Of(_)) ==
    IF Given(value, i, key) = {} THEN {<<>>} ELSE UNION {Vec(v, Of) : v \in Given(value, i, key)}
=============================================================================
