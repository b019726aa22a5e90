---------------------------- MODULE BlobSegments ----------------------------
(***************************************************************************)
(* The table of segments at the beginning of a blob, as VisionaryData-     *)
(* Stream::parseSegmentBinaryData checks it: how many segments there are   *)
(* and where each begins, as unsigned fields whose differences wrap.  The  *)
(* first segment holds the XML, the second the images.  Only the distances *)
(* between the segments are checked, never where the first of them begins. *)
(***************************************************************************)
EXTENDS Integers

CONSTANTS
  FieldValues,  \* number of values of a field of the table
  Blobs         \* the sizes and tables of the blobs that are received

HeaderSize == 4
EntrySize  == 8

\* Bytes before the first segment.
TableSize(b) == HeaderSize + b.segments * EntrySize

ASSUME FieldAssumption == FieldValues \in Nat \ {0}

\* The length of a packet, which is more than the size of the blob in it, is a
\* field too.
ASSUME BlobsAssumption ==
  \A b \in Blobs :
    /\ b.size \in 0..(FieldValues - 1)
    /\ b.segments \in Nat
    /\ b.offset \in [1..3 -> 0..(FieldValues - 1)]

Distance(from, to) == (to - from) % FieldValues

XmlSize(b)    == Distance(b.offset[1], b.offset[2])
ImagesSize(b) == Distance(b.offset[2], b.offset[3])

TableRead(b) == b.size >= HeaderSize /\ b.size >= TableSize(b) /\ b.segments >= 3

\* The first segment is handed to the data handler.
XmlTaken(b) == TableRead(b) /\ XmlSize(b) <= b.size - TableSize(b)

\* Fault: what the XML takes is not counted.
ImagesTakenTwice(b) == ImagesSize(b) <= b.size - TableSize(b)

\* The second one is handed on too, after the first was.
ImagesTaken(b) == ImagesSize(b) <= b.size - TableSize(b) - XmlSize(b)

\* The first segment leaves no gap behind the table.  The code does not look.
BeginsAtTable(b) == b.segments >= 3 => b.offset[1] <= TableSize(b)

\* The first n segments lie in the blob, one behind the other.
HasSegments(b, n) ==
  /\ \A i \in 1..n : b.offset[i] <= b.offset[i + 1]
  /\ b.offset[n + 1] <= b.size
=============================================================================
