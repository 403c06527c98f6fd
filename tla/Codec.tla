------------------------------- MODULE Codec -------------------------------
(***************************************************************************)
(* What the two codecs share: a message is its type byte followed by its    *)
(* fields in a fixed order, integers little-endian in a fixed width and     *)
(* enumerated values as one byte.  Each language has its own tables and its *)
(* own checks, modules CppCodec and RustCodec.                              *)
(***************************************************************************)
EXTENDS Naturals, SequencesExt

CONSTANTS
  ByteSpace,     \* a byte is one of 0..ByteSpace-1
  Types,         \* message types, in the order of their type bytes
  FieldsOf,      \* fields of each type, in wire order
  WidthOf,       \* bytes of each field
  Enumerated     \* values of each enumerated field, in the order of their bytes

Known(byte) == byte < Len(Types)

TypeOf(bytes) == Types[bytes[1] + 1]

Ok(value) == [status |-> "Ok", value |-> value]

Err(kind) == [status |-> kind]

-----------------------------------------------------------------------------

(* Bytes before the k-th field of a type.                                   *)
Offset(type, k) == 1 + MapThenSumSet(LAMBDA j : WidthOf[FieldsOf[type][j]], 1..(k - 1))

LenOf(type) == Offset(type, Len(FieldsOf[type]) + 1)

ToLittleEndian(value, width) ==
  [i \in 1..width |-> (value \div ByteSpace^(i - 1)) % ByteSpace]

FromLittleEndian(bytes) ==
  MapThenSumSet(LAMBDA i : bytes[i] * ByteSpace^(i - 1), 1..Len(bytes))

(* The writers: one field, and a whole message.                             *)
Put(field, value) ==
  IF field \in DOMAIN Enumerated THEN << SelectInSeq(Enumerated[field], LAMBDA v : v = value) - 1 >>
  ELSE ToLittleEndian(value, WidthOf[field])

Written(msg) ==
  LET fields == FieldsOf[msg.type]
  IN << SelectInSeq(Types, LAMBDA t : t = msg.type) - 1 >> \o
       FlattenSeq([k \in 1..Len(fields) |-> Put(fields[k], msg[fields[k]])])

(* The readers: the bytes of the k-th field, whether they name a value, and *)
(* the message of a frame all of whose fields do.                           *)
FieldBytes(bytes, k) ==
  SubSeq(bytes, Offset(TypeOf(bytes), k) + 1, Offset(TypeOf(bytes), k + 1))

Named(bytes) ==
  LET fields == FieldsOf[TypeOf(bytes)]
  IN \A k \in 1..Len(fields) :
       fields[k] \in DOMAIN Enumerated =>
         FieldBytes(bytes, k)[1] < Len(Enumerated[fields[k]])

Get(field, raw) ==
  IF field \in DOMAIN Enumerated THEN Enumerated[field][raw[1] + 1]
  ELSE FromLittleEndian(raw)

Read(bytes) ==
  LET fields == FieldsOf[TypeOf(bytes)]
      at(field) == SelectInSeq(fields, LAMBDA f : f = field)
  IN [f \in ToSet(fields) \cup {"type"} |->
        IF f = "type" THEN TypeOf(bytes) ELSE Get(f, FieldBytes(bytes, at(f)))]

=============================================================================
