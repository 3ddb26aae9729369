------------------------------ MODULE JpegWalk ------------------------------
(***************************************************************************)
(* The walk over the segments of a JPEG, _trailer_bytes with the two       *)
(* functions it is built on in encoder.py.  Everything the service knows   *)
(* about a video glued on behind a picture by the bytes alone is where     *)
(* this walk says the picture ends.  A file is a sequence of bytes, offset *)
(* 0 first; an action is one turn of a loop.                               *)
(***************************************************************************)
EXTENDS Naturals, Sequences

CONSTANT MaxHarmless    \* MAX_HARMLESS_TRAILER_BYTES

VARIABLES
    data,   \* the bytes under the walk
    walk    \* where it stands

wvars == <<data, walk>>

Size  == Len(data)
At(i) == data[i + 1]

SOI == 216
EOI == 217
SOS == 218
Restarts    == 208 .. 215
Standalones == {1} \cup Restarts \cup {SOI}

Unopened == [pc |-> "closed", pos |-> 0]

Go(pc, pos) == /\ walk' = [pc |-> pc, pos |-> pos]
               /\ UNCHANGED data

\* _jpeg_end_offset as far as its loop.
Open(bytes) ==
    /\ data' = bytes
    /\ walk' = IF Len(bytes) >= 4 /\ bytes[1] = 255 /\ bytes[2] = SOI
               THEN [pc |-> "segment", pos |-> 2]
               ELSE [pc |-> "unknown", pos |-> 0]

\* The marker code found from pos on: any number of fill bytes may precede it.
IsCode(c) ==
    /\ c \in walk.pos + 1 .. Size - 1
    /\ At(c) # 255
    /\ \A i \in walk.pos .. c - 1 : At(i) = 255

Length(i)   == 256 * At(i) + At(i + 1)
Measured(c) == c + 2 < Size /\ Length(c + 1) >= 2

EndOfImage ==
    /\ walk.pc = "segment"
    /\ \E c \in 2 .. Size : IsCode(c) /\ At(c) = EOI /\ Go("found", c + 1)

Standalone ==
    /\ walk.pc = "segment"
    /\ \E c \in 2 .. Size : IsCode(c) /\ At(c) \in Standalones /\ Go("segment", c + 1)

\* Mutant: the length is taken not to count its own two bytes.
SegmentTooLong ==
    /\ walk.pc = "segment"
    /\ \E c \in 2 .. Size :
           /\ IsCode(c) /\ At(c) \notin Standalones \cup {EOI} /\ Measured(c)
           /\ Go(IF At(c) = SOS THEN "scan" ELSE "segment", c + 3 + Length(c + 1))

Segment ==
    /\ walk.pc = "segment"
    /\ \E c \in 2 .. Size :
           /\ IsCode(c) /\ At(c) \notin Standalones \cup {EOI} /\ Measured(c)
           /\ Go(IF At(c) = SOS THEN "scan" ELSE "segment", c + 1 + Length(c + 1))

CannotTell ==
    /\ walk.pc = "segment"
    /\ ~\E c \in 2 .. Size : IsCode(c) /\ (At(c) \in Standalones \cup {EOI} \/ Measured(c))
    /\ Go("unknown", 0)

\* The next 255 of a scan, if a byte follows it.
IsMark(i) ==
    /\ i \in walk.pos .. Size - 2
    /\ At(i) = 255
    /\ \A j \in walk.pos .. i - 1 : At(j) # 255

\* A stuffed 255, or a restart marker: still the scan.
Entropy ==
    /\ walk.pc = "scan"
    /\ \E i \in 2 .. Size : IsMark(i) /\ At(i + 1) \in {0} \cup Restarts /\ Go("scan", i + 2)

EndOfScan ==
    /\ walk.pc = "scan"
    /\ \E i \in 2 .. Size : IsMark(i) /\ At(i + 1) \notin {0} \cup Restarts /\ Go("segment", i)

ScanBreaksOff ==
    /\ walk.pc = "scan"
    /\ ~\E i \in 2 .. Size : IsMark(i)
    /\ Go("unknown", 0)

Walk == \/ EndOfImage \/ Standalone \/ Segment \/ CannotTell
        \/ Entropy \/ EndOfScan \/ ScanBreaksOff

Walked == walk.pc \in {"found", "unknown"}

\* More than padding follows the picture.
Payload == walk.pc = "found" /\ Size - walk.pos > MaxHarmless

-----------------------------------------------------------------------------
(* What a JPEG is, said without a walk: the parts that may follow one      *)
(* another between the first marker and the last.  Byte i of d is d[i + 1].*)

IsJpeg(d) == Len(d) >= 4 /\ d[1] = 255 /\ d[2] = SOI

\* At a is a marker, its code at c.
Marker(d, a, c) == /\ c \in a + 1 .. Len(d) - 1
                   /\ d[c + 1] # 255 /\ \A i \in a .. c - 1 : d[i + 1] = 255

HasLength(d, c) == c + 2 < Len(d) /\ 256 * d[c + 2] + d[c + 3] >= 2
After(d, c)     == c + 1 + 256 * d[c + 2] + d[c + 3]

\* In the coded data of a scan a 255 is a stuffed one or begins a restart
\* marker; any other marker ends it.
InScan    == {0} \cup Restarts
Coded(d, h, b)  == \A i \in h .. b - 1 : d[i + 1] = 255 => i + 1 < b /\ d[i + 2] \in InScan
ScanEnds(d, b)  == b + 1 < Len(d) /\ d[b + 1] = 255 /\ d[b + 2] \notin InScan

\* The bytes from a to before b are one part: a marker alone, one with a
\* segment, or one with a segment and the scan that follows it.
Part(d, a, b) ==
    /\ b \in 0 .. Len(d)
    /\ \E c \in a + 1 .. b - 1 :
          /\ Marker(d, a, c)
          /\ \/ d[c + 1] \in Standalones /\ b = c + 1
             \/ d[c + 1] \notin Standalones \cup {EOI, SOS} /\ HasLength(d, c) /\ b = After(d, c)
             \/ /\ d[c + 1] = SOS /\ HasLength(d, c) /\ After(d, c) <= b
                /\ Coded(d, After(d, c), b) /\ ScanEnds(d, b)

\* The last part, behind which the picture is over.
LastPart(d, a, e) == \E c \in a + 1 .. Len(d) - 1 : Marker(d, a, c) /\ d[c + 1] = EOI /\ e = c + 1

\* What begins at a is no part.
BreaksOff(d, a) == \A b \in a .. Len(d) : ~Part(d, a, b) /\ ~LastPart(d, a, b)

=============================================================================
