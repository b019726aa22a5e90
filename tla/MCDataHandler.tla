--------------------------- MODULE MCDataHandler ---------------------------
(***************************************************************************)
(* DataHandler for TLC: descriptions of the same size, of another size,    *)
(* without one of the images, and without images at all.                   *)
(***************************************************************************)
EXTENDS DataHandler, TLC

CONSTANTS small, other, large, noState, noDepthMap

MCPixels  == small :> 1 @@ other :> 1 @@ large :> 2 @@ noState :> 1 @@ noDepthMap :> 0
MCPresent == small :> Images @@ other :> Images @@ large :> Images
             @@ noState :> Images \ {"state"} @@ noDepthMap :> {}

\* Blobs with an XML of 12 bytes and 20 bytes of images, complete with the segment
\* behind them or cut off, with other numbers of segments, with their offsets in
\* another order, and with a gap behind the table: everything is in the blob, the
\* images or already the XML are not, and an XML that ends behind the wrap.
Layout == <<28, 40, 60>>
MCBlobs ==
  [size: {3, 27, 39, 40, 59, 64}, segments: {3}, offset: {Layout}]
    \cup [size: {64}, segments: {2}, offset: {Layout}]
    \cup [size: {35, 60}, segments: {4}, offset: {<<36, 48, 60>>}]
    \cup [size: {64}, segments: {3}, offset: {<<28, 60, 40>>, <<28, 20, 60>>, <<28, 70, 65>>}]
    \cup [size: {64}, segments: {3},
          offset: {<<30, 42, 62>>, <<40, 52, 70>>, <<70, 80, 84>>, <<120, 10, 20>>}]
=============================================================================
