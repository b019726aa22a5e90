--------------------------- MODULE MCPacketReader ---------------------------
(* PacketReader on short streams over a few bytes.                         *)
EXTENDS PacketReader

CONSTANTS
  Bytes,     \* the values of a byte in arbitrary streams, STX among them
  MaxStream  \* length of the longest arbitrary stream

Run == <<STX, STX, STX, STX>>
Noise == {<<>>, <<STX>>, <<0, STX, STX, STX>>}

\* A packet without noise and without a checksum.
Framed(bodies) == {Run \o <<0, Len(b)>> \o b : b \in bodies}

Bodies == SeqOf({0, STX}, 2) \cup {<<STX, STX, 0>>}
BlobBodies == {<<0, STX>>, <<0, STX, 98>>} \cup {BlobHeader \o b : b \in {<<>>, <<STX>>}}

\* Anything short, and two packets among noise.
NoisyStreams(packetsOf) ==
  SeqOf(Bytes, MaxStream)
    \cup {n \o p \o m \o q : n \in Noise, p \in packetsOf, m \in Noise, q \in packetsOf}

\* CoLaB: two packets with their checksums, the second one cut off anywhere.
Checked == {p \o <<c>> : p \in Framed(Bodies), c \in {0, STX}}
CoLaBStreams == {p \o c : p \in Checked, c \in UNION {Prefixes(q) : q \in Checked}}

\* CoLaB does not get past another byte: its streams have none between packets.
AllInputs == [r \in {"CoLa2", "CoLaB", "DataStream"} |->
                CASE r = "CoLa2"      -> NoisyStreams(Framed(Bodies))
                  [] r = "CoLaB"      -> CoLaBStreams
                  [] r = "DataStream" -> NoisyStreams(Framed(BlobBodies))]

\* CoLaB: one packet behind noise.
NoisyInputs == [r \in {"CoLaB"} |-> {n \o p : n \in Noise, p \in Checked}]
=============================================================================
