---------------------------- MODULE MCVirtioBlk ----------------------------
(* A disk of two sectors over an image, with an overlay.                    *)
EXTENDS VirtioBlk

CONSTANTS zero, a, b

MCData == {zero, a, b}
MCImage == [s \in Sectors |-> zero]

Request(type, sector, segs, data, chain) ==
  [type |-> type, sector |-> sector, segs |-> segs, data |-> data, chain |-> chain]

\* A read of the whole disk; a write of both sectors with two descriptors, one
\* that runs off the end in its second descriptor; a request without data; a
\* chain the device does not accept.
MCRequests ==
  {Request("in", 0, <<2>>, <<zero, zero>>, "ok"),
   Request("out", 0, <<1, 2>>, <<a, b>>, "ok"),
   Request("out", 1, <<1, 2>>, <<b, b>>, "ok"),
   Request("other", 0, <<>>, <<>>, "ok"),
   Request("out", 0, <<>>, <<>>, "malformed")}
=============================================================================
