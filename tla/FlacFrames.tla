----------------------------- MODULE FlacFrames -----------------------------
(***************************************************************************)
(* The vocabulary the encoders share: how the LDS input is read in chunks  *)
(* of groups, how its samples are cut into frames, and what a STREAMINFO   *)
(* block says.  A sample is known by its position in the input, so a frame *)
(* is a run of positions and an MD5 is the length of the prefix it covers. *)
(***************************************************************************)
EXTENDS Integers, Sequences

CONSTANTS FrameSamples,    \* samples in every frame but the last
          GroupSamples,    \* samples unpacked from one 5-byte group (4)
          ChunkGroups,     \* groups in one read of the input (8192)
          TotalLimit       \* largest total STREAMINFO can state (2^36 - 1)

ASSUME FramesAssumption ==
  /\ GroupSamples \in Nat \ {0}
  /\ FrameSamples \in Nat /\ FrameSamples >= GroupSamples
  /\ ChunkGroups \in Nat \ {0}
  /\ TotalLimit \in Nat

Min2(a, b) == IF a < b THEN a ELSE b

-----------------------------------------------------------------------------
\* An LDS input: whole groups, then possibly a few bytes of another one.
Inputs(maxGroups) == [groups : 0 .. maxGroups, ragged : BOOLEAN]

LengthOf(in) == in.groups * GroupSamples

(***************************************************************************)
(* What one read of a chunk may deliver when left groups remain: a full    *)
(* chunk; a short one that ends the file (partial when a few bytes follow  *)
(* the last group); or whatever came before an I/O error.                  *)
(***************************************************************************)
Reads(left, ragged) ==
  LET full == IF left >= ChunkGroups
              THEN {[groups |-> ChunkGroups, partial |-> FALSE, stream |-> "good"]}
              ELSE {[groups |-> left, partial |-> ragged, stream |-> "eof"]}
      failed == [groups : 0 .. Min2(left, ChunkGroups - 1), partial : BOOLEAN,
                 stream : {"bad"}]
  IN  full \cup failed

-----------------------------------------------------------------------------
\* Frame n of an input of len samples; only the last may be short.
FrameAt(n, len) ==
  [number |-> n,
   first  |-> n * FrameSamples,
   count  |-> Min2(FrameSamples, len - n * FrameSamples)]

Frames == [number : Nat, first : Nat, count : Nat]

\* STREAMINFO has 36 bits for the total; a larger total is left unknown (0).
KnownTotal(n) == IF n <= TotalLimit THEN n ELSE 0

Placeholder == [total |-> 0, md5 |-> 0]
StreamInfo(samples, hashed) == [total |-> KnownTotal(samples), md5 |-> hashed]
=============================================================================
