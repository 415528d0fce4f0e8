------------------------------ MODULE CausalId ------------------------------
(***************************************************************************)
(* Record identifiers (crates/core/src/ids.rs).  An id packs a Lamport     *)
(* tick and the 16-bit source of the node that minted it into one integer; *)
(* it is stored as fixed-width hex, so the text order of the stored ids is *)
(* the integer order used here.  The 112 bits of the tick are out of reach *)
(* of any deployment, so ticks are unbounded naturals.                     *)
(***************************************************************************)
EXTENDS Integers

SourceSpan == 65536                       \* 2^SOURCE_BITS
Source == 0..(SourceSpan - 1)

SERVER_SOURCE == 1                        \* IdGen::resume(1, ..) in main.rs
CLIENT_SOURCE == 2                        \* the same constant in every browser

Pack(tick, source) == tick * SourceSpan + source

\* from_str_radix(hex) >> SOURCE_BITS
TickOf(id) == id \div SourceSpan

SourceOf(id) == id % SourceSpan

\* SELECT max(id)
MaxId(ids) == CHOOSE i \in ids : \A j \in ids : j <= i

\* The tick a factory resumes from: that of the highest id persisted, 0 when
\* the tables are empty.
HighestTick(ids) == IF ids = {} THEN 0 ELSE TickOf(MaxId(ids))

\* IdGen::next of a factory whose last tick is "tick".
NextId(source, tick) == Pack(tick + 1, source)
=============================================================================
