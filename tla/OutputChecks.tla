---------------------------- MODULE OutputChecks ----------------------------
(***************************************************************************)
(* What the runner checks of a rendered file before it uploads it, against *)
(* what the composition declared: pure predicates over a file and a claim. *)
(* A file is a record of what the checks can measure; its frames are those *)
(* ffprobe counts, "shown" the ones a seek yields a picture of and         *)
(* "bright" those of them with a pixel above BLACK_MAX_LUMA.               *)
(***************************************************************************)
EXTENDS Naturals

CONSTANTS
    MinOutputCeilingBytes,
    NoFile

ASSUME CeilingAssumption == MinOutputCeilingBytes \in Nat

MinBytesPerFrame == 8
PixelsPerByte == 10     \* MAX_BYTES_PER_CLAIMED_PIXEL is 0.1
PngHeaderBytes == 24

CeilDiv(a, b) == (a + b - 1) \div b

\* c.sized: the composition exposed a width and a height.
maxOutputBytes(c) ==
    LET derived == CeilDiv(c.frames * c.width * c.height, PixelsPerByte)
    IN IF c.sized /\ derived > MinOutputCeilingBytes THEN derived ELSE MinOutputCeilingBytes

sampleIndices(n) ==
    CASE n <= 1 -> {0} [] n = 2 -> {0, 1} [] OTHER -> {0, n \div 2, n - 1}

SameSize(f, c) == f.width = c.width /\ f.height = c.height

\* The part of verifyRenderedOutput that reads only the size of the file.
Structural(f, c) == f # NoFile /\ f.size > 0 /\ f.size <= maxOutputBytes(c)

\* probeOutput: it decodes, and its frames are counted, not claimed.
Probed(f) == f.decodes /\ f.frames > 0

\* sampleFrames: a seek that yields no picture is skipped.
Sampled(f) == sampleIndices(f.frames) \cap f.shown

\* The part that runs ffprobe and ffmpeg.
Measured(f, c) ==
    /\ Probed(f)
    /\ f.size >= f.frames * MinBytesPerFrame
    /\ f.frames = c.frames
    /\ c.sized => SameSize(f, c)
    /\ Sampled(f) # {}
    /\ Sampled(f) \cap f.bright # {}

verifyRenderedOutput(f, c, tools) == Structural(f, c) /\ (tools => Measured(f, c))

\* Here f.decodes says that the signature and the first chunk are a PNG's.
verifyStillOutput(f, c) ==
    /\ f # NoFile /\ f.size >= PngHeaderBytes
    /\ f.decodes
    /\ f.width > 0 /\ f.height > 0
    /\ c.sized /\ SameSize(f, c)
====
