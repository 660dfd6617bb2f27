---------------------------- MODULE M2Types ----------------------------
(***************************************************************************)
(* The types of the compiled language as semantic analysis and lowering    *)
(* see them: newm2-sema/src/types.rs and the predicates of analyze.rs.     *)
(* A type is a record with a kind k.  The built-in types keep one member   *)
(* of every width that behaves differently: a whole number is wide (the    *)
(* 64 bits of INTEGER and CARDINAL) or narrow (the 8 of INTEGER8 and       *)
(* CARDINAL8).  The widths are parameters, so that TLC reaches both ends   *)
(* of every range.                                                         *)
(***************************************************************************)
EXTENDS Integers, Sequences, FiniteSets

CONSTANTS Wide,      \* bits of INTEGER and CARDINAL
          Narrow,    \* bits of INTEGER8 and CARDINAL8
          CharBits,  \* bits of CHAR, and of an enumeration
          SetBits    \* bits of a set, and the number of its elements

ASSUME WidthAssumption == /\ {Wide, Narrow, CharBits, SetBits} \subseteq Nat
                          /\ 1 < Narrow /\ Narrow < CharBits
                          /\ CharBits < Wide /\ Wide <= SetBits

INTEGER   == [k |-> "INTEGER"]
CARDINAL  == [k |-> "CARDINAL"]
INTEGER8  == [k |-> "INTEGER8"]
CARDINAL8 == [k |-> "CARDINAL8"]
BOOL      == [k |-> "BOOLEAN"]
CHAR      == [k |-> "CHAR"]
REAL      == [k |-> "REAL"]
BITSET    == [k |-> "BITSET"]
NILTYPE   == [k |-> "NIL"]
ADDRESS   == [k |-> "ADDRESS"]
NoType    == [k |-> "none"]

Subrange(host, lo, hi) == [k |-> "subrange", host |-> host, lo |-> lo, hi |-> hi]
Enum(members)          == [k |-> "enum", members |-> members]
SetOf(base)            == [k |-> "set", of |-> base]
ArrayOf(index, elem)   == [k |-> "array", index |-> index, elem |-> elem]
OpenArray(elem)        == [k |-> "open", elem |-> elem]
PointerTo(base)        == [k |-> "pointer", to |-> base]
RecordOf(fields)       == [k |-> "record", fields |-> fields]
Class(name)            == [k |-> "class", class |-> name]

Builtins == {"INTEGER", "CARDINAL", "INTEGER8", "CARDINAL8", "BOOLEAN", "CHAR",
             "REAL", "BITSET", "NIL", "ADDRESS"}

(* Two built-in types between which no conversion is needed.               *)
is_same_family(a, b) ==
  \/ a = b
  \/ {a, b} \subseteq {"INTEGER", "INTEGER8"}
  \/ {a, b} \subseteq {"CARDINAL", "CARDINAL8"}
  \/ {a, b} = {"NIL", "ADDRESS"}

builtin_ordinal_bounds(k) ==
  CASE k = "BOOLEAN"   -> <<0, 1>>
    [] k = "CHAR"      -> <<0, 2^CharBits - 1>>
    [] k = "INTEGER8"  -> <<-(2^(Narrow - 1)), 2^(Narrow - 1) - 1>>
    [] k = "CARDINAL8" -> <<0, 2^Narrow - 1>>
    [] k \in {"CARDINAL", "ADDRESS"} -> <<0, 2^Wide - 1>>
    [] k = "INTEGER"   -> <<-(2^(Wide - 1)), 2^(Wide - 1) - 1>>
    [] k = "BITSET"    -> <<0, SetBits - 1>>
    [] OTHER           -> <<>>

RECURSIVE ordinal_bounds(_)
ordinal_bounds(t) ==
  CASE t.k = "subrange" -> <<t.lo, t.hi>>
    [] t.k = "enum"     -> <<0, Len(t.members) - 1>>
    [] t.k = "set"      -> ordinal_bounds(t.of)
    [] OTHER            -> builtin_ordinal_bounds(t.k)

ordinal_cardinality(t) == LET b == ordinal_bounds(t) IN (b[2] - b[1]) + 1

is_integer_family_type(t) ==
  t.k \in {"INTEGER", "CARDINAL", "INTEGER8", "CARDINAL8", "ADDRESS", "enum", "subrange"}
is_numeric_type(t)  == is_integer_family_type(t) \/ t.k = "REAL"
is_ordinal_type(t)  == is_integer_family_type(t) \/ t.k \in {"CHAR", "BOOLEAN"}
is_set_type(t)      == t.k \in {"set", "BITSET"}
is_scalar_convertible_type(t) ==
  is_ordinal_type(t) \/ is_numeric_type(t) \/ t.k = "pointer"

(* Class inheritance: base maps a class to the class it extends, or to "". *)
RECURSIVE class_is_subclass(_, _, _)
class_is_subclass(base, sub, sup) ==
  sub # "" /\ (sub = sup \/ class_is_subclass(base, base[sub], sup))

RECURSIVE types_compatible(_, _, _)
types_compatible(base, l, r) ==
  \/ l = r
  \/ l.k \in Builtins /\ r.k \in Builtins /\ is_same_family(l.k, r.k)
  \/ l.k = "set" /\ r.k = "set" /\ types_compatible(base, l.of, r.of)
  \/ {l.k, r.k} = {"set", "BITSET"}
  \/ l.k = "pointer" /\ r.k = "pointer" /\ types_compatible(base, l.to, r.to)
  \/ {l.k, r.k} \in {{"pointer", "NIL"}, {"pointer", "ADDRESS"},
                     {"class", "NIL"}, {"class", "ADDRESS"}}
  \/ l.k = "open" /\ r.k \in {"open", "array"} /\ types_compatible(base, l.elem, r.elem)
  \/ l.k = "class" /\ r.k = "class" /\ class_is_subclass(base, r.class, l.class)
  \/ l.k = "subrange" /\ types_compatible(base, l.host, r)
  \/ l.k # "subrange" /\ r.k = "subrange" /\ types_compatible(base, l, r.host)

(* The width codegen gives a scalar (llvm_type); 0 is a pointer.           *)
RECURSIVE BitsOf(_)
BitsOf(t) ==
  CASE t.k \in {"INTEGER", "CARDINAL"}   -> Wide
    [] t.k \in {"INTEGER8", "CARDINAL8"} -> Narrow
    [] t.k \in {"CHAR", "enum"}          -> CharBits
    [] t.k = "BOOLEAN"                   -> 1
    [] t.k \in {"set", "BITSET"}         -> SetBits
    [] t.k = "subrange"                  -> BitsOf(t.host)
    [] OTHER                             -> 0

(* The cells of a value of a type, by their widths: an array or a record is
   the cells of its parts one after the other.                             *)
RECURSIVE Layout(_)
Layout(t) ==
  CASE t.k = "array" ->
         LET one == Layout(t.elem)
             RECURSIVE times(_)
             times(n) == IF n = 0 THEN <<>> ELSE one \o times(n - 1)
         IN  times(ordinal_cardinality(t.index))
    [] t.k = "record" ->
         LET RECURSIVE from(_)
             from(i) == IF i > Len(t.fields) THEN <<>> ELSE Layout(t.fields[i].ty) \o from(i + 1)
         IN  from(1)
    [] OTHER -> <<BitsOf(t)>>
SizeOf(t) == Len(Layout(t))
=============================================================================
