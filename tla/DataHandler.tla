---------------------------- MODULE DataHandler ----------------------------
(***************************************************************************)
(* A data handler: what VisionaryTMiniData and VisionarySData keep of the  *)
(* blobs they parse, and the point cloud computed from it.  The XML of a   *)
(* blob describes its images; it is parsed only when its change counter    *)
(* differs from the one before, and the lookup table of the point cloud is *)
(* computed only when there is none for the description.                   *)
(*                                                                         *)
(* A blob can be cut off or damaged in the places that the parsers check;  *)
(* they stop there and leave what they have stored so far.  Nothing checks *)
(* where its first segment begins; to read a segment that is not in the    *)
(* blob is undefined, and the behaviour ends there.  Every image has one   *)
(* byte per pixel, and a blob's own images are never as little larger than *)
(* those of another description as a footer is.                            *)
(***************************************************************************)
EXTENDS Integers, FiniteSets, BlobSegments

CONSTANTS
  Descriptions,  \* what the XML can say
  none,          \* no description
  Pixels,        \* per description, width times height
  Present,       \* per description, the images with a byte depth
  FirstCounter,  \* the change counter of the device's first description
  MaxBlobs,      \* bound: blobs received
  MaxChanges     \* bound: changes of the description

Images == {"distance", "intensity", "state"}

ASSUME NoneAssumption == none \notin Descriptions
ASSUME PixelsAssumption == Pixels \in [Descriptions -> Nat]
ASSUME PresentAssumption == Present \in [Descriptions -> SUBSET Images]
\* A handler begins with change counter 0.
ASSUME CounterAssumption == FirstCounter \in Nat \ {0}
ASSUME BoundsAssumption == MaxBlobs \in Nat /\ MaxChanges \in Nat

VARIABLES
  family,    \* the class of the handler: "TMini" or "S"
  handler,   \* its members
  desc,      \* the description the device sends
  counter,   \* its change counter
  blob,      \* number of blobs received
  returned,  \* what parsing the last one returned: "true", "false", "exception",
             \* "undefined" if it read outside the blob, "none" before
  damage,    \* history: where the last blob was damaged
  unread,    \* history: the XML of the handler's counter was not read to its end
  careful,   \* history: point clouds were asked for only after a "true"
  overread   \* generatePointCloud has read past the lookup table

device  == <<family, desc, counter>>
history == <<damage, unread>>
cloud   == <<careful, overread>>
vars    == <<device, handler, blob, returned, history, cloud>>

PixelsOf(d)  == IF d = none THEN 0 ELSE Pixels[d]
PresentOf(d) == IF d = none THEN {} ELSE Present[d]

\* The size of the images when the resolution is taken from description s and
\* the byte depths from description d.
Bytes(s, d) == PixelsOf(s) * Cardinality(PresentOf(d))

Empty == [blob |-> 0, pixels |-> 0]

\* Where a blob can be damaged, in the order of parsing: its table of segments;
\* the XML that cannot be read, that lacks the description of the images, or of
\* their size in it, or the parameters after the size; the second segment cut off,
\* the header of the images, the images cut off in it, their footer.  "outside" is
\* a segment that is not in the blob and read all the same.
Places == {"segments", "xml", "tree", "stream", "half", "second", "header", "images",
           "footer", "outside"}

\* The XML is not read to its end.
NotRead == {"xml", "tree", "stream", "half"}

\* Nothing more can be said.
Stopped == overread \/ returned = "undefined"

-----------------------------------------------------------------------------
Init ==
  /\ family \in {"TMini", "S"}
  /\ desc \in Descriptions /\ counter = FirstCounter
  /\ handler = [counter |-> 0, size |-> none, depth |-> none, lut |-> <<>>,
                time |-> 0, maps |-> [i \in Images |-> Empty]]
  /\ blob = 0 /\ returned = "none" /\ damage = "none" /\ unread = FALSE
  /\ careful = TRUE /\ overread = FALSE

\* The image size and the byte depths after XML that is damaged at place.
SizeAfter(h, place)  == IF place \in {"xml", "tree"} THEN h.size
                        ELSE IF place = "stream" THEN none ELSE desc
DepthAfter(h, place) == IF place \in NotRead THEN h.depth ELSE desc

\* Fault: what has been parsed once is not parsed again.
ParseXmlOnce(h, place) ==
  IF h.counter # 0 THEN h
  ELSE [h EXCEPT !.counter = counter, !.lut = <<>>,
                 !.size = SizeAfter(h, place), !.depth = DepthAfter(h, place)]

\* Fault: the lookup table is kept.
ParseXmlKeepsTable(h, place) ==
  IF h.counter = counter THEN h
  ELSE [h EXCEPT !.counter = counter,
                 !.size = SizeAfter(h, place), !.depth = DepthAfter(h, place)]

\* Fault: the lookup table is dropped only when the XML has been read.
ParseXmlDropsLate(h, place) ==
  IF h.counter = counter THEN h
  ELSE [h EXCEPT !.counter = counter, !.lut = IF place \in NotRead THEN @ ELSE <<>>,
                 !.size = SizeAfter(h, place), !.depth = DepthAfter(h, place)]

\* parseXML: the handler after it.
ParseXml(h, place) ==
  IF h.counter = counter THEN h
  ELSE [h EXCEPT !.counter = counter, !.lut = <<>>,
                 !.size = SizeAfter(h, place), !.depth = DepthAfter(h, place)]

\* A description that cannot be read returns false, one that lacks a part throws.
XmlResult(h, place) ==
  IF h.counter = counter \/ place \notin NotRead THEN "true"
  ELSE IF place = "xml" THEN "false" ELSE "exception"

\* Fault: an image that is not in the blob is left as it was.
StoreKeepsAbsent(h) ==
  [i \in Images |-> IF i \in PresentOf(h.depth)
                    THEN [blob |-> blob', pixels |-> PixelsOf(h.size)] ELSE h.maps[i]]

\* The images of a blob.  VisionarySData resizes those it does not find,
\* VisionaryTMiniData clears them.
Store(h) ==
  [i \in Images |->
     IF i \in PresentOf(h.depth) THEN [blob |-> blob', pixels |-> PixelsOf(h.size)]
     ELSE IF family = "S" THEN [h.maps[i] EXCEPT !.pixels = PixelsOf(h.size)]
     ELSE Empty]

HeaderRead(h, place) == PixelsOf(h.size) > 0 /\ place # "header"

\* Fault: the images must be smaller than what is left of the blob.
ImagesReadIfSmaller(h, place) ==
  HeaderRead(h, place) /\ place # "images" /\ Bytes(h.size, h.depth) < Bytes(desc, desc)

ImagesRead(h, place) ==
  HeaderRead(h, place) /\ place # "images" /\ Bytes(h.size, h.depth) <= Bytes(desc, desc)

\* parseBinaryData: the handler after it.
ParseBinary(h, place) ==
  [h EXCEPT !.time = IF HeaderRead(h, place) THEN blob' ELSE @,
            !.maps = IF ImagesRead(h, place) THEN Store(h) ELSE @]

\* The copy of the length is where the description puts it.
BinaryResult(h, place) ==
  IF ImagesRead(h, place) /\ place # "footer" /\ Bytes(h.size, h.depth) = Bytes(desc, desc)
  THEN "true" ELSE "false"

\* The table of segments is checked before the handler sees anything.
RejectSegments ==
  /\ damage' = "segments"
  /\ returned' = "false"
  /\ UNCHANGED <<handler, unread>>

\* The XML is taken from outside the blob.
ReadOutside ==
  /\ damage' = "outside"
  /\ returned' = "undefined"
  /\ UNCHANGED <<handler, unread>>

\* parseSegmentBinaryData with the handler, blob b damaged at place or not at all.
ParseSegments(b, place) ==
  LET read == ParseXml(handler, place)
      ok   == XmlResult(handler, place)
  IN /\ damage' = place
     /\ unread' = IF handler.counter = counter THEN unread ELSE place \in NotRead
     /\ handler' = IF ok = "true" /\ ImagesTaken(b) /\ HasSegments(b, 2)
                   THEN ParseBinary(read, place) ELSE read
     /\ returned' = IF ok # "true" THEN ok
                    ELSE IF ~ImagesTaken(b) THEN "false"
                    ELSE IF HasSegments(b, 2) THEN BinaryResult(read, place) ELSE "undefined"

\* VisionaryTMiniData takes XML without images for a description of none, which
\* has neither a size nor parameters to miss; VisionarySData wants both.
XmlDamages == {"xml"} \cup {place \in {"tree"} : family = "S"}
                      \cup {place \in {"stream"} : family = "TMini" /\ PixelsOf(desc) > 0}
                      \cup {place \in {"half"} : family = "S" \/ PixelsOf(desc) > 0}
Damages(b) == XmlDamages \cup (IF ~ImagesTaken(b) THEN {"second"}
                               ELSE IF HasSegments(b, 2) THEN {"none", "header", "images", "footer"}
                               ELSE {"outside"})

\* getNextFrame has received blob b.
Receive(b) ==
  /\ blob < MaxBlobs /\ ~Stopped
  /\ blob' = blob + 1
  /\ \/ ~XmlTaken(b) /\ RejectSegments
     \/ XmlTaken(b) /\ ~HasSegments(b, 1) /\ ReadOutside
     \/ XmlTaken(b) /\ HasSegments(b, 1) /\ \E place \in Damages(b) : ParseSegments(b, place)
  /\ UNCHANGED <<device, cloud>>

NextBlob == \E b \in Blobs : Receive(b)

\* Fault: a table is computed without an image size.
GenerateCloudUnchecked ==
  /\ ~Stopped
  /\ careful' = (careful /\ returned = "true")
  /\ handler' = [handler EXCEPT !.lut = IF @ = <<>> THEN <<handler.size, handler.depth>> ELSE @]
  /\ overread' = (handler.maps["distance"].pixels > PixelsOf(handler'.lut[1]))
  /\ UNCHANGED <<device, blob, returned, history>>

\* generatePointCloud of VisionaryData, for the distance image: throws when there
\* is no image size to compute the table for.
GenerateCloud ==
  /\ ~Stopped
  /\ careful' = (careful /\ returned = "true")
  /\ \/ /\ handler.lut = <<>> /\ PixelsOf(handler.size) = 0
        /\ UNCHANGED <<handler, overread>>
     \/ /\ handler.lut # <<>> \/ PixelsOf(handler.size) > 0
        /\ handler' = [handler EXCEPT !.lut = IF @ = <<>> THEN <<handler.size, handler.depth>> ELSE @]
        /\ overread' = (handler.maps["distance"].pixels > PixelsOf(handler'.lut[1]))
  /\ UNCHANGED <<device, blob, returned, history>>

\* The device changes what it sends, the blobs in between may be missed.
Change ==
  /\ counter < FirstCounter + MaxChanges
  /\ counter' = counter + 1
  /\ desc' \in Descriptions
  /\ UNCHANGED <<family, handler, blob, returned, history, cloud>>

Done == (blob = MaxBlobs \/ Stopped) /\ UNCHANGED vars

Next == NextBlob \/ GenerateCloud \/ Change \/ Done

Spec == Init /\ [][Next]_vars

-----------------------------------------------------------------------------
(* Properties.                                                             *)

Known == Descriptions \cup {none}

TypeOK ==
  /\ family \in {"TMini", "S"} /\ desc \in Descriptions
  /\ counter \in Nat /\ blob \in 0..MaxBlobs
  /\ handler.counter \in Nat /\ {handler.size, handler.depth} \subseteq Known
  /\ handler.lut \in {<<>>} \cup (Descriptions \X Known)
  /\ handler.time \in 0..blob
  /\ handler.maps \in [Images -> [blob: 0..blob, pixels: Nat]]
  /\ returned \in {"none", "true", "false", "exception", "undefined"}
  /\ damage \in Places \cup {"none"}
  /\ {unread, careful, overread} \subseteq BOOLEAN

\* A lookup table that is kept is the one for the description that is kept,
\* also after a description that could be read only in part.
TableIsCurrent == handler.lut # <<>> => handler.lut = <<handler.size, handler.depth>>

\* A frame that was parsed consists of this blob only: its time, its images, and
\* none of an earlier blob, whatever failed half-way before.  An image that the
\* description does not have is empty; VisionarySData leaves it as it was.
FrameIsOneBlob ==
  returned = "true" =>
    /\ handler.time = blob
    /\ \A i \in Images :
         \/ handler.maps[i].blob = blob
         \/ handler.maps[i] = Empty
         \/ family = "S" /\ i \notin PresentOf(handler.depth)

\* Frames are decoded with the description that came with them or was left out as
\* unchanged, unless that could not be read when it came.
DecodedAsDescribed ==
  [][returned' = "true" /\ ~unread' /\ NextBlob =>
       handler'.size = desc /\ handler'.depth = desc]_vars

\* A blob with nothing wrong is accepted, whatever was wrong before, unless its
\* description could not be read when it came.
AcceptsGoodBlob ==
  [][damage' = "none" /\ ~unread' /\ PixelsOf(desc) > 0 /\ NextBlob => returned' = "true"]_vars

\* A blob whose first segment leaves no gap behind the table, as devices send it,
\* is never read outside: when it is cut off or its table is not in order, nothing
\* changes that would come from behind its end, not the description if its XML is
\* not all there, and neither images nor time if those are not.  (With a gap the
\* code has no such promise to keep.)
CutBlobIsRefused ==
  [][\A b \in Blobs :
       /\ BeginsAtTable(b)
       /\ \/ returned' = "undefined"
          \/ handler' # handler /\ ~HasSegments(b, 1)
          \/ (returned' = "true" \/ handler'.time # handler.time) /\ ~HasSegments(b, 2)
       => ~Receive(b)]_vars

\* An application that asks for a point cloud only after a frame was parsed gets
\* one that is computed within the lookup table.
CloudInBounds == careful => ~overread
=============================================================================
