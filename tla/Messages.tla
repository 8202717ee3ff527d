------------------------------ MODULE Messages ------------------------------
(***************************************************************************)
(* The protobuf messages the console reads and writes, as the generated    *)
(* code of message.pb.cpp treats them: UimfRequestMessage (read from       *)
(* "acquire frame"), TofWidthMessage (written for "acquire" and "tof       *)
(* width") and Message (written for the live data).                        *)
(*                                                                         *)
(* A message on the wire is a sequence of tagged fields; tags, varints and *)
(* lengths are the library's business.  An entry of type "bad" is one the  *)
(* parser fails on: cut short, or text that is not UTF-8.  Numbers have    *)
(* Bits32 and Bits64 bits, scaled down from 32 and 64.                     *)
(***************************************************************************)
EXTENDS Integers, Sequences, SequencesExt

CONSTANTS Bits32, Bits64

ASSUME BitsAssumption ==
    /\ Bits32 \in Nat \ {0}
    /\ Bits64 \in Nat \ {0}

\* The fields of a message, by number: their type and whether they repeat.
Field(type, repeated) == [type |-> type, repeated |-> repeated]

MessageFields ==
    <<Field("int32", TRUE), Field("uint32", TRUE), Field("uint64", TRUE)>>

TofWidthFields == <<Field("uint64", FALSE), Field("uint64", FALSE)>>

UimfRequestFields ==
    <<Field("uint64", FALSE), Field("uint64", FALSE), Field("uint64", FALSE),
      Field("uint64", FALSE), Field("uint32", FALSE), Field("uint32", FALSE),
      Field("string", FALSE), Field("int32", FALSE)>>

Default(field) ==
    IF field.repeated THEN <<>> ELSE IF field.type = "string" THEN "" ELSE 0

\* What is left of a varint in a field of the type.
Cast(type, v) ==
    LET u == v % 2^Bits32
    IN  CASE type = "uint64" -> v % 2^Bits64
          [] type = "uint32" -> u
          [] type = "int32" -> IF u < 2^(Bits32 - 1) THEN u ELSE u - 2^Bits32
          [] OTHER -> v

\* Clear(), and what a constructor leaves.
Clear(fields) ==
    [value |-> [f \in DOMAIN fields |-> Default(fields[f])], unknown |-> <<>>]

\* One field off the wire.  A known number with a type it may have is stored, a
\* single field over what was there; all else is kept as unknown.  Repeated
\* numbers come packed or one by one.
ParseField(fields, m, e) ==
    LET known == e.field \in DOMAIN fields
        f == fields[e.field]
    IN  IF known /\ f.repeated /\ e.type \in {"packed", "varint"} THEN
            LET vs == IF e.type = "packed" THEN e.value ELSE <<e.value>>
            IN  [m EXCEPT !.value[e.field] =
                    @ \o [i \in DOMAIN vs |-> Cast(f.type, vs[i])]]
        ELSE IF known /\ ~f.repeated /\ e.type = (IF f.type = "string" THEN "len" ELSE "varint") THEN
            [m EXCEPT !.value[e.field] = Cast(f.type, e.value)]
        ELSE [m EXCEPT !.unknown = Append(@, e)]

\* MergePartialFromCodedStream: fields up to the first bad one.
Parse(fields, m, wire) ==
    LET after[n \in 0..Len(wire)] ==
            IF n = 0 THEN [message |-> m, ok |-> TRUE]
            ELSE LET a == after[n - 1]
                 IN  IF ~a.ok \/ wire[n].type = "bad" THEN [message |-> a.message, ok |-> FALSE]
                     ELSE [message |-> ParseField(fields, a.message, wire[n]), ok |-> TRUE]
    IN  after[Len(wire)]

Entry(fields, f, value) ==
    [field |-> f,
     type |-> IF fields[f].repeated THEN "packed"
              ELSE IF fields[f].type = "string" THEN "len" ELSE "varint",
     value |-> value]

\* SerializeWithCachedSizes: in the order of the numbers, defaults left out.
Serialize(fields, m) ==
    LET upto[f \in 0..Len(fields)] ==
            IF f = 0 THEN <<>>
            ELSE IF m.value[f] = Default(fields[f]) THEN upto[f - 1]
            ELSE Append(upto[f - 1], Entry(fields, f, m.value[f]))
    IN  upto[Len(fields)] \o m.unknown

-----------------------------------------------------------------------------
(* The generated functions the console calls *)

MessageClear == Clear(MessageFields)
MessageParse(wire) == Parse(MessageFields, MessageClear, wire)
MessageSerialize(m) == Serialize(MessageFields, m)

TofWidthClear == Clear(TofWidthFields)
TofWidthParse(wire) == Parse(TofWidthFields, TofWidthClear, wire)
TofWidthSerialize(m) == Serialize(TofWidthFields, m)

UimfRequestClear == Clear(UimfRequestFields)
UimfRequestParse(wire) == Parse(UimfRequestFields, UimfRequestClear, wire)
UimfRequestSerialize(m) == Serialize(UimfRequestFields, m)

\* Mutant of uimf_message_to_parameters: two numbers in the order of the message.
uimf_message_to_parametersSwapped(m) ==
    [start_trigger |-> m.value[1], nbr_samples |-> m.value[2],
     nbr_accumulations |-> m.value[3], frame_length |-> m.value[4],
     frame_number |-> m.value[5], offset_bins |-> m.value[6], file_name |-> m.value[7]]

\* UIMFHelpers: frame_type is not looked at.
uimf_message_to_parameters(m) ==
    [start_trigger |-> m.value[1], nbr_samples |-> m.value[2],
     nbr_accumulations |-> m.value[4], frame_length |-> m.value[3],
     frame_number |-> m.value[5], offset_bins |-> m.value[6], file_name |-> m.value[7]]

=============================================================================
