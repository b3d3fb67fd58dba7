---------------------------- MODULE RecordCodec ----------------------------
(***************************************************************************)
(* The record format of the disk queue (crates/telemetry-core/src/         *)
(* telemetry.rs): encode as a function, decode as the state machine of its *)
(* Cursor, one action per field.  Between the two the bytes may be         *)
(* damaged: cut, extended, or one byte changed.                            *)
(*                                                                         *)
(* The widths of the integers are parameters; a byte has Base values.      *)
(* Lengths and counts are cut to their width the way `as u16` does it.     *)
(***************************************************************************)
EXTENDS Integers, Sequences, SequencesExt

CONSTANTS
  Base,               \* values of a byte
  W16, W32, W128,     \* bytes in a u16, u32, u128
  Magic,              \* RECORD_MAGIC
  Space,              \* a byte that is white space
  NotUtf8,            \* a byte that no UTF-8 string has
  Records,            \* the records that are encoded
  MaxDamaged          \* bound: the longest input that is damaged

ASSUME CodecAssumption ==
  /\ {Base, W16, W32, W128} \subseteq Nat \ {0}
  /\ Base > 3
  /\ {Space, NotUtf8} \subseteq 0..(Base - 1)
  /\ Magic \in Seq(0..(Base - 1))

VARIABLES
  record,   \* the record that was encoded
  input,    \* the bytes decode is given
  damage,   \* what happened to them
  field,    \* the field the cursor is at, "done" or "error"
  offset,   \* the cursor's offset
  count,    \* attributes left to read
  out       \* the fields read so far

vars == <<record, input, damage, field, offset, count, out>>

Bytes == 0..(Base - 1)
MAX16 == Base^W16 - 1
MAX32 == Base^W32 - 1

-----------------------------------------------------------------------------
(* encode                                                                  *)

to_le_bytes(n, w) == [i \in 1..w |-> (n \div Base^(i - 1)) % Base]

from_le_bytes(b) == FoldLeftDomain(LAMBDA sum, i : sum + b[i] * Base^(i - 1), 0, b)

to_wire(signal) == CASE signal = "trace" -> 1 [] signal = "metric" -> 2 [] signal = "log" -> 3
from_wire(b) == CASE b = 1 -> "trace" [] b = 2 -> "metric" [] b = 3 -> "log"

Blank(s) == \A i \in DOMAIN s : s[i] = Space

validate(r) ==
  /\ ~Blank(r.tenant_id)
  /\ Len(r.body) <= MAX32
  /\ \A i \in DOMAIN r.attributes : ~Blank(r.attributes[i].key)

\* Mutant: one too many.
FitsLoosely(n) == n <= MAX16 + 1

Fits16(n) == n <= MAX16

\* The records encode has bytes for.
encodes(r) ==
  /\ validate(r)
  /\ Fits16(Len(r.tenant_id))
  /\ Fits16(Len(r.attributes))
  /\ \A i \in DOMAIN r.attributes :
       Fits16(Len(r.attributes[i].key)) /\ Fits16(Len(r.attributes[i].value))

write_string(s) == to_le_bytes(Len(s), W16) \o s

encode(r) ==
  Magic \o <<to_wire(r.signal)>> \o to_le_bytes(r.timestamp_unix_nanos, W128)
    \o write_string(r.tenant_id)
    \o to_le_bytes(Len(r.attributes), W16)
    \o FlattenSeq([i \in DOMAIN r.attributes |->
         write_string(r.attributes[i].key) \o write_string(r.attributes[i].value)])
    \o to_le_bytes(Len(r.body), W32) \o r.body

-----------------------------------------------------------------------------
Empty == [tenant_id |-> <<>>, signal |-> "trace", timestamp_unix_nanos |-> 0,
          attributes |-> <<>>, body |-> <<>>]

Init ==
  /\ record \in {r \in Records : encodes(r)}
  /\ input = encode(record)
  /\ damage = "none"
  /\ field = "magic"
  /\ offset = 0
  /\ count = 0
  /\ out = Empty

Damages(how, bytes) ==
  /\ damage = "none" /\ field = "magic"
  /\ Len(input) <= MaxDamaged
  /\ damage' = how
  /\ input' = bytes
  /\ UNCHANGED <<record, field, offset, count, out>>

Cut(n) == n < Len(input) /\ Damages("length", SubSeq(input, 1, n))

Extend(b) == Damages("length", Append(input, b))

Change(i, b) ==
  /\ i <= Len(input) /\ input[i] # b
  /\ Damages("byte", [input EXCEPT ![i] = b])

-----------------------------------------------------------------------------
(* decode.  A read fails when the input ends before it does.               *)

Has(o, n) == o + n <= Len(input)

Slice(o, n) == SubSeq(input, o + 1, o + n)

Number(o, w) == from_le_bytes(Slice(o, w))

HasPrefixed(o, w) == Has(o, w) /\ Has(o + w, Number(o, w))

EndOf(o, w) == o + w + Number(o, w)

Prefixed(o, w) == Slice(o + w, Number(o, w))

utf8(s) == \A i \in DOMAIN s : s[i] # NotUtf8

HasString(o) == HasPrefixed(o, W16) /\ utf8(Prefixed(o, W16))

Reads(at, ok, next, o, new) ==
  /\ field = at
  /\ field' = IF ok THEN next ELSE "error"
  /\ offset' = IF ok THEN o ELSE offset
  /\ out' = IF ok THEN new ELSE out
  /\ UNCHANGED <<record, input, damage>>

ReadMagic ==
  /\ Reads("magic", Has(0, Len(Magic)) /\ Slice(0, Len(Magic)) = Magic,
           "signal", Len(Magic), out)
  /\ UNCHANGED count

ReadSignal ==
  LET ok == Has(offset, 1) /\ input[offset + 1] \in 1..3 IN
  /\ Reads("signal", ok, "timestamp", offset + 1,
           [out EXCEPT !.signal = IF ok THEN from_wire(input[offset + 1]) ELSE @])
  /\ UNCHANGED count

ReadTimestamp ==
  /\ Reads("timestamp", Has(offset, W128), "tenant", offset + W128,
           [out EXCEPT !.timestamp_unix_nanos = Number(offset, W128)])
  /\ UNCHANGED count

ReadTenant ==
  /\ Reads("tenant", HasString(offset), "count", EndOf(offset, W16),
           [out EXCEPT !.tenant_id = Prefixed(offset, W16)])
  /\ UNCHANGED count

ReadCount ==
  /\ Reads("count", Has(offset, W16), "attributes", offset + W16, out)
  /\ count' = IF Has(offset, W16) THEN Number(offset, W16) ELSE count

ReadAttribute ==
  LET value == EndOf(offset, W16)
      ok == HasString(offset) /\ HasString(value) IN
  /\ count > 0
  /\ Reads("attributes", ok, "attributes", EndOf(value, W16),
           [out EXCEPT !.attributes = Append(@, [key |-> Prefixed(offset, W16),
                                                 value |-> Prefixed(value, W16)])])
  /\ count' = count - 1

AttributesRead ==
  /\ count = 0
  /\ Reads("attributes", TRUE, "body", offset, out)
  /\ UNCHANGED count

is_finished(o) == o = Len(input)

ReadBody ==
  LET end == EndOf(offset, W32) IN
  /\ Reads("body", HasPrefixed(offset, W32) /\ is_finished(end), "done", end,
           [out EXCEPT !.body = Prefixed(offset, W32)])
  /\ UNCHANGED count

Next ==
  \/ \E n \in 0..MaxDamaged : Cut(n)
  \/ \E b \in Bytes : Extend(b) \/ \E i \in 1..MaxDamaged : Change(i, b)
  \/ ReadMagic \/ ReadSignal \/ ReadTimestamp \/ ReadTenant \/ ReadCount
  \/ ReadAttribute \/ AttributesRead \/ ReadBody

Spec == Init /\ [][Next]_vars
-----------------------------------------------------------------------------
TypeOK ==
  /\ input \in Seq(Bytes)
  /\ damage \in {"none", "length", "byte"}
  /\ field \in {"magic", "signal", "timestamp", "tenant", "count", "attributes",
                "body", "done", "error"}
  /\ offset \in 0..Len(input)
  /\ count \in 0..MAX16

\* What encode accepts, decode gives back, at the largest lengths and counts as
\* well: nothing is cut to its width on the way.
RoundTrip ==
  damage = "none" => field # "error" /\ (field = "done" => out = record)

\* No other length of the input is a record: a record cut short or followed by
\* anything is an error, so two records never run into each other.
LengthExact == damage = "length" => field # "done"

\* decode accepts only what encode writes: a changed byte is an error, or gives
\* a record whose encoding these bytes are, unless encode refuses that record.
Canonical ==
  (field = "done" /\ validate(out)) => encodes(out) /\ encode(out) = input
=============================================================================
